---- MODULE Spec2Model ----
(***************************************************************************)
(* seed15: conversion between a 16-byte seed and a 15-word seed phrase     *)
(* (src/src/phrase.rs) and the single-use random source behind             *)
(* keypair_from_seed (src/src/keypair.rs).                                 *)
(*                                                                         *)
(* A Rust str is modelled as the sequence of its UTF-8 bytes, so that      *)
(* str::len, byte-range slicing and the char-boundary panic of slicing     *)
(* are what they are in the program.  A Seed is a function 0..15 -> byte.  *)
(***************************************************************************)
EXTENDS Integers, Sequences, FiniteSets, TLC

\* ------------------------------------------------------------------------
\* Bounds of the model
\* ------------------------------------------------------------------------
MaxEdits == 2          \* caller's changes to an encoded phrase before decoding
NumPatternSeeds == 1   \* patterned seeds next to the seeds of the test-suite
NumDigestSamples == 16 \* sampled values of digest bytes 0 and 2
MaxCalls == 4          \* calls made on one SeedCsprng

\* ------------------------------------------------------------------------
\* Program constants
\* ------------------------------------------------------------------------
SEED_ENTROPY_WORDS == 13
SEED_CHECKSUM_WORDS == 2
DICTIONARY_UNIQUE_PREFIX == 3
SeedLen == 16
DictionarySize == 1024
DigestLen == 32

Byte == 0..255
SPACE == 32

\* ------------------------------------------------------------------------
\* Integer operations of the program (usize / u8, no overflow reachable)
\* ------------------------------------------------------------------------
Shl(x, n) == x * (2 ^ n)
Shr(x, n) == x \div (2 ^ n)

RECURSIVE BitAnd(_, _)
BitAnd(x, y) ==
    IF x = 0 \/ y = 0 THEN 0
    ELSE (x % 2) * (y % 2) + 2 * BitAnd(x \div 2, y \div 2)

RECURSIVE BitOr(_, _)
BitOr(x, y) ==
    IF x = 0 THEN y
    ELSE IF y = 0 THEN x
    ELSE (IF x % 2 = 1 \/ y % 2 = 1 THEN 1 ELSE 0) + 2 * BitOr(x \div 2, y \div 2)

\* ------------------------------------------------------------------------
\* Strings: UTF-8 byte sequences
\* ------------------------------------------------------------------------
\* str::len(): length in bytes
StrLen(s) == Len(s)

\* a UTF-8 continuation byte is 10xxxxxx
IsContinuation(b) == b >= 128 /\ b < 192

\* str::is_char_boundary(n)
IsCharBoundary(s, n) ==
    \/ n = 0
    \/ n = Len(s)
    \/ n < Len(s) /\ ~IsContinuation(s[n + 1])

\* &s[..n] panics unless n <= len and n is a char boundary
SliceToPanics(s, n) == n > Len(s) \/ ~IsCharBoundary(s, n)
SliceTo(s, n) == SubSeq(s, 1, n)

\* str::split(" "): cut at every space byte, empty pieces kept
RECURSIVE SplitFrom(_, _, _, _)
SplitFrom(s, k, cur, acc) ==
    IF k > Len(s) THEN Append(acc, cur)
    ELSE IF s[k] = SPACE THEN SplitFrom(s, k + 1, <<>>, Append(acc, cur))
    ELSE SplitFrom(s, k + 1, Append(cur, s[k]), acc)

\* variant: empty pieces dropped, as split_whitespace does
SplitDroppingEmpty(s) == SelectSeq(SplitFrom(s, 1, <<>>, <<>>), LAMBDA t : t # <<>>)

Split(s) == SplitFrom(s, 1, <<>>, <<>>)

\* [&str]::join(" ")
RECURSIVE Join(_)
Join(ws) ==
    IF Len(ws) = 0 THEN <<>>
    ELSE IF Len(ws) = 1 THEN ws[1]
    ELSE ws[1] \o <<SPACE>> \o Join(Tail(ws))

\* ------------------------------------------------------------------------
\* Dictionary: 1024 words without a space, each at least
\* DICTIONARY_UNIQUE_PREFIX bytes long, with pairwise distinct prefixes of
\* that length.  Word i spells i in base 16 with the letters 'a' (97) .. 'p' and
\* carries a tail of 0, 1 or 2 letters.
\* ------------------------------------------------------------------------
WordPrefix(i) ==
    << 97 + (i \div 256), 97 + ((i \div 16) % 16), 97 + (i % 16) >>

WordTail(i) ==
    IF i % 3 = 0 THEN <<>>
    ELSE IF i % 3 = 1 THEN << 97 + 4 >>
    ELSE << 97 + 4, 97 + 17 >>

DICTIONARY == [i \in 0..(DictionarySize - 1) |-> WordPrefix(i) \o WordTail(i)]

\* w[..DICTIONARY_UNIQUE_PREFIX] of every dictionary word
DictPrefix == [i \in 0..(DictionarySize - 1) |-> SliceTo(DICTIONARY[i], DICTIONARY_UNIQUE_PREFIX)]

\* ------------------------------------------------------------------------
\* Hash: Sha256::new(); update(seed); finalize().  The digest function of
\* the sha2 crate is outside the repository: it is represented by a fixed
\* deterministic mixing function Seed -> 32 bytes.
\* ------------------------------------------------------------------------
RECURSIVE WeightedSum(_, _)
WeightedSum(seed, i) ==
    IF i = SeedLen THEN 0
    ELSE seed[i] * (2 * i + 3) + WeightedSum(seed, i + 1)

Sha256(seed) ==
    LET h == (WeightedSum(seed, 0) * 31 + 17) % 65521
    IN  [k \in 0..(DigestLen - 1) |->
            (h * (k + 3) + (h \div 256) * (k * k + 1) + 89 * k + 41) % 256]

\* ------------------------------------------------------------------------
\* seed_to_checksum_words
\* ------------------------------------------------------------------------
\* variant: the second word without its 16-bit mask
ChecksumIndicesUnmasked(result) ==
    LET word1 == Shr(Shl(result[0], 8) + result[1], 6)
        word2 == Shr(Shl(result[1], 10) + Shl(result[2], 2), 6)
    IN  << word1, word2 >>

\* the two word indices taken from the first three digest bytes
ChecksumIndices(result) ==
    LET word1a == Shl(result[0], 8)
        word1b == word1a + result[1]
        word1  == Shr(word1b, 6)
        word2a == Shl(result[1], 10)
        word2b == BitAnd(word2a, 65535)
        word2c == word2b + Shl(result[2], 2)
        word2  == Shr(word2c, 6)
    IN  << word1, word2 >>

seed_to_checksum_words(seed) ==
    LET ix == ChecksumIndices(Sha256(seed))
    IN  << DICTIONARY[ix[1]], DICTIONARY[ix[2]] >>

\* ------------------------------------------------------------------------
\* seed_to_seed_phrase
\* ------------------------------------------------------------------------
\* variant: the final word is given 10 bits too
WordBitsAllTen(i) == 10

\* "All words have 10 bits except the final word, which has 8 bits."
WordBits(i) == IF i = SEED_ENTROPY_WORDS - 1 THEN 8 ELSE 10

\* the cursor after one bit
NextCursor(c) ==
    IF c.bit + 1 = 8 THEN [byte |-> c.byte + 1, bit |-> 0]
    ELSE [byte |-> c.byte, bit |-> c.bit + 1]

\* inner loop "for j in 0..bits" of the encoder: reads bits of the seed at the
\* cursor into word_index.  seed[current_byte] panics when current_byte is
\* outside the seed.  maxByte records the largest byte index read.
RECURSIVE EncodeWord(_, _, _, _, _, _)
EncodeWord(seed, bits, j, c, word_index, maxByte) ==
    IF j = bits
    THEN [panic |-> FALSE, word_index |-> word_index, c |-> c, maxByte |-> maxByte]
    ELSE IF c.byte >= SeedLen
    THEN [panic |-> TRUE, word_index |-> word_index, c |-> c, maxByte |-> c.byte]
    ELSE LET bit_is_set == BitAnd(seed[c.byte], Shl(1, 8 - c.bit - 1)) > 0
             wi == IF bit_is_set THEN BitOr(word_index, Shl(1, bits - j - 1))
                   ELSE word_index
             mb == IF c.byte > maxByte THEN c.byte ELSE maxByte
         IN  EncodeWord(seed, bits, j + 1, NextCursor(c), wi, mb)

\* outer loop "for i in 0..SEED_ENTROPY_WORDS" of the encoder
RECURSIVE EncodeWords(_, _, _, _, _, _)
EncodeWords(seed, i, c, phrase, indices, maxByte) ==
    IF i = SEED_ENTROPY_WORDS
    THEN [panic |-> FALSE, phrase |-> phrase, indices |-> indices, maxByte |-> maxByte]
    ELSE LET w == EncodeWord(seed, WordBits(i), 0, c, 0, maxByte)
         IN  IF w.panic \/ w.word_index >= DictionarySize
             THEN [panic |-> TRUE, phrase |-> phrase, indices |-> indices,
                   maxByte |-> w.maxByte]
             ELSE EncodeWords(seed, i + 1, w.c,
                              (IF i # 0 THEN phrase \o <<SPACE>> ELSE phrase)
                                  \o DICTIONARY[w.word_index],
                              Append(indices, w.word_index), w.maxByte)

seed_to_seed_phrase(seed) ==
    LET e == EncodeWords(seed, 0, [byte |-> 0, bit |-> 0], <<>>, <<>>, 0)
        checksum_words == seed_to_checksum_words(seed)
    IN  IF e.panic THEN e
        ELSE [e EXCEPT !.phrase = e.phrase \o <<SPACE>> \o checksum_words[1]
                                           \o <<SPACE>> \o checksum_words[2]]

\* ------------------------------------------------------------------------
\* seed_phrase_to_seed
\* ------------------------------------------------------------------------
NoSeed == [i \in {} |-> 0]
ZeroSeed == [i \in 0..(SeedLen - 1) |-> 0]

\* Outcomes of a call.  kind is "Ok", "Err" or "Panic"; err names the bail!
\* that was taken; n, a, b are the values its message is formatted from.
\* resolved, bound and compared record how far the call got: entropy tokens
\* resolved, 13th-word bound checked, checksum tokens compared.
Outcome(kind, err, seed, n, a, b, resolved, bound, compared) ==
    [kind |-> kind, err |-> err, seed |-> seed, n |-> n, a |-> a, b |-> b,
     resolved |-> resolved, bound |-> bound, compared |-> compared]

NoOutcome == Outcome("None", "", NoSeed, 0, <<>>, <<>>, 0, FALSE, 0)

\* "for i in 0..all_words.len()": length gate and truncation of every token
RECURSIVE TruncateWords(_, _, _)
TruncateWords(all_words, i, n) ==
    IF i > n THEN [status |-> "ok", words |-> all_words]
    ELSE IF StrLen(all_words[i]) < DICTIONARY_UNIQUE_PREFIX
    THEN [status |-> "malformed", words |-> all_words]
    ELSE IF SliceToPanics(all_words[i], DICTIONARY_UNIQUE_PREFIX)
    THEN [status |-> "panic", words |-> all_words]
    ELSE TruncateWords(
            [all_words EXCEPT ![i] = SliceTo(all_words[i], DICTIONARY_UNIQUE_PREFIX)],
            i + 1, n)

\* variant: only the entropy words go through the length gate
TruncateEntropyWords(all_words) == TruncateWords(all_words, 1, SEED_ENTROPY_WORDS)

\* the loop over 0..all_words.len()
TruncateAllWords(all_words) == TruncateWords(all_words, 1, Len(all_words))

\* variant: word_index is advanced before the comparison
LookupWordCountingEarly(word) ==
    LET m == {k \in DOMAIN DICTIONARY : DictPrefix[k] = word}
    IN  IF m = {} THEN [word_found |-> FALSE, word_index |-> DictionarySize]
        ELSE [word_found |-> TRUE,
              word_index |-> (CHOOSE k \in m : \A j \in m : k <= j) + 1]

\* "for w in DICTIONARY": index of the first word whose prefix equals the
\* token; word_index runs to the dictionary's length when there is none
LookupWord(word) ==
    LET m == {k \in DOMAIN DICTIONARY : DictPrefix[k] = word}
    IN  IF m = {} THEN [word_found |-> FALSE, word_index |-> DictionarySize]
        ELSE [word_found |-> TRUE,
              word_index |-> CHOOSE k \in m : \A j \in m : k <= j]

\* variant: no bound on the 13th word
OutOfRangeUnchecked(i, word_index) == FALSE

\* the 13th-word bound: "if word_index > 255"
OutOfRange(i, word_index) == i = SEED_ENTROPY_WORDS - 1 /\ word_index > 255

\* inner loop "for j in 0..bits" of the decoder: writes the bits of
\* word_index into the seed at the cursor
RECURSIVE PackWord(_, _, _, _, _)
PackWord(seed, word_index, bits, j, c) ==
    IF j = bits THEN [panic |-> FALSE, seed |-> seed, c |-> c]
    ELSE LET bit_is_set == BitAnd(word_index, Shl(1, bits - j - 1)) > 0
         IN  IF ~bit_is_set
             THEN PackWord(seed, word_index, bits, j + 1, NextCursor(c))
             ELSE IF c.byte >= SeedLen
             THEN [panic |-> TRUE, seed |-> seed, c |-> c]
             ELSE PackWord(
                    [seed EXCEPT ![c.byte] = BitOr(seed[c.byte], Shl(1, 8 - c.bit - 1))],
                    word_index, bits, j + 1, NextCursor(c))

\* variant: only the first checksum word is compared
VerifyChecksumFirstOnly(seed, all_words) ==
    LET cw == seed_to_checksum_words(seed)
        c0 == SliceTo(cw[1], DICTIONARY_UNIQUE_PREFIX)
    IN  IF c0 # all_words[SEED_ENTROPY_WORDS + 1]
        THEN Outcome("Err", "Checksum1", NoSeed, 0, c0,
                     all_words[SEED_ENTROPY_WORDS + 1], SEED_ENTROPY_WORDS, TRUE, 1)
        ELSE Outcome("Ok", "", seed, 0, <<>>, <<>>, SEED_ENTROPY_WORDS, TRUE, 1)

\* variant: the second checksum word is compared before the first
VerifyChecksumSecondFirst(seed, all_words) ==
    LET cw == seed_to_checksum_words(seed)
        c0 == SliceTo(cw[1], DICTIONARY_UNIQUE_PREFIX)
        c1 == SliceTo(cw[2], DICTIONARY_UNIQUE_PREFIX)
    IN  IF c1 # all_words[SEED_ENTROPY_WORDS + 2]
        THEN Outcome("Err", "Checksum2", NoSeed, 0, c1,
                     all_words[SEED_ENTROPY_WORDS + 2], SEED_ENTROPY_WORDS, TRUE, 1)
        ELSE IF c0 # all_words[SEED_ENTROPY_WORDS + 1]
        THEN Outcome("Err", "Checksum1", NoSeed, 0, c0,
                     all_words[SEED_ENTROPY_WORDS + 1], SEED_ENTROPY_WORDS, TRUE, 2)
        ELSE Outcome("Ok", "", seed, 0, <<>>, <<>>, SEED_ENTROPY_WORDS, TRUE, 2)

\* the checksum comparison at the end of the decoder
VerifyChecksum(seed, all_words) ==
    LET cw == seed_to_checksum_words(seed)
        c0 == SliceTo(cw[1], DICTIONARY_UNIQUE_PREFIX)
        c1 == SliceTo(cw[2], DICTIONARY_UNIQUE_PREFIX)
    IN  IF c0 # all_words[SEED_ENTROPY_WORDS + 1]
        THEN Outcome("Err", "Checksum1", NoSeed, 0, c0,
                     all_words[SEED_ENTROPY_WORDS + 1], SEED_ENTROPY_WORDS, TRUE, 1)
        ELSE IF c1 # all_words[SEED_ENTROPY_WORDS + 2]
        THEN Outcome("Err", "Checksum2", NoSeed, 0, c1,
                     all_words[SEED_ENTROPY_WORDS + 2], SEED_ENTROPY_WORDS, TRUE, 2)
        ELSE Outcome("Ok", "", seed, 0, <<>>, <<>>, SEED_ENTROPY_WORDS, TRUE, 2)

\* outer loop "for i in 0..SEED_ENTROPY_WORDS" of the decoder, then the
\* checksum.  all_words is 1-based here: token i of the code is all_words[i+1].
RECURSIVE DecodeWords(_, _, _, _)
DecodeWords(all_words, i, seed, c) ==
    IF i = SEED_ENTROPY_WORDS THEN VerifyChecksum(seed, all_words)
    ELSE LET l == LookupWord(all_words[i + 1])
         IN  IF ~l.word_found
             THEN Outcome("Err", "UnknownWord", NoSeed, 0, all_words[i + 1], <<>>,
                          i, FALSE, 0)
             ELSE IF OutOfRange(i, l.word_index)
             THEN Outcome("Err", "OutOfRange", NoSeed, 0, DictPrefix[l.word_index],
                          <<>>, i + 1, TRUE, 0)
             ELSE LET p == PackWord(seed, l.word_index, WordBits(i), 0, c)
                  IN  IF p.panic
                      THEN Outcome("Panic", "", NoSeed, 0, <<>>, <<>>, i + 1, FALSE, 0)
                      ELSE DecodeWords(all_words, i + 1, p.seed, p.c)

seed_phrase_to_seed(phrase) ==
    LET all_words == Split(phrase)
        expected_words == SEED_ENTROPY_WORDS + SEED_CHECKSUM_WORDS
    IN  IF Len(all_words) # expected_words
        THEN Outcome("Err", "WordCount", NoSeed, Len(all_words), <<>>, <<>>, 0, FALSE, 0)
        ELSE LET t == TruncateAllWords(all_words)
             IN  IF t.status = "malformed"
                 THEN Outcome("Err", "Malformed", NoSeed, 0, <<>>, <<>>, 0, FALSE, 0)
                 ELSE IF t.status = "panic"
                 THEN Outcome("Panic", "", NoSeed, 0, <<>>, <<>>, 0, FALSE, 0)
                 ELSE DecodeWords(t.words, 0, ZeroSeed, [byte |-> 0, bit |-> 0])

\* valid_seed_phrase: Ok(seed) becomes Ok(()), an error is wrapped
valid_seed_phrase(phrase) ==
    LET r == seed_phrase_to_seed(phrase)
    IN  IF r.kind = "Ok" THEN [r EXCEPT !.seed = NoSeed] ELSE r


\* ------------------------------------------------------------------------
\* Inputs
\* ------------------------------------------------------------------------
\* the seeds of check_seed_phrases: [0; 16] with bytes 0..k set in turn
TestBytes == << 185, 46, 7, 1, 254, 2 >>
TestSeed(k) == [i \in 0..(SeedLen - 1) |-> IF i < k THEN TestBytes[i + 1] ELSE 0]

\* patterned seeds standing for random_seed()
PatternSeed(k) == [i \in 0..(SeedLen - 1) |-> (k * 83 + i * (k * 38 + 29) + 151) % 256]

FullSeed == [i \in 0..(SeedLen - 1) |-> 255]

\* a seed with the single bit n set, n counted from the most significant
\* bit of byte 0
OneBitSeed(n) == [i \in 0..(SeedLen - 1) |-> IF i = n \div 8 THEN 2 ^ (7 - (n % 8)) ELSE 0]

EditSeeds == {TestSeed(6)} \cup {PatternSeed(k) : k \in 1..NumPatternSeeds}

Seeds ==
    EditSeeds \cup {ZeroSeed, FullSeed} \cup {TestSeed(k) : k \in 1..5}
              \cup {OneBitSeed(n) : n \in 0..(8 * SeedLen - 1)}
              \cup {[i \in 0..(SeedLen - 1) |-> 255 - OneBitSeed(n)[i]] : n \in 0..(8 * SeedLen - 1)}

\* tokens a caller puts into a phrase
TokAb == << 97, 98 >>                \* "ab": too short
TokAbx == << 97, 98, 120 >>          \* "abx": not a dictionary prefix
TokMulti == << 97, 97, 195, 169 >>   \* "aa" and a 2-byte character
TokEmpty == << >>

\* a word of the caller's own that starts like w
Substitute(w) ==
    IF Len(w) >= DICTIONARY_UNIQUE_PREFIX
    THEN SliceTo(w, DICTIONARY_UNIQUE_PREFIX) \o << 122, 122 >>
    ELSE w

\* the minimal form of w
Minimal(w) ==
    IF Len(w) >= DICTIONARY_UNIQUE_PREFIX THEN SliceTo(w, DICTIONARY_UNIQUE_PREFIX) ELSE w

\* "if phrase_words[14] == DICTIONARY[0] { DICTIONARY[1] } else { DICTIONARY[0] }"
OtherWord(w) == IF w = DICTIONARY[0] THEN DICTIONARY[1] ELSE DICTIONARY[0]

EditPositions == {0, 12, 13, 14}
MultiBytePositions == {0, 14}
MinimalPositions == {0}

\* the tokens put in place of token i of the phrase s
ReplacementTokens(s, i) ==
    LET phrase_words == Split(s)
    IN  IF i >= Len(phrase_words) THEN {}
        ELSE {OtherWord(phrase_words[i + 1]), TokAb, TokAbx,
              Substitute(phrase_words[i + 1])}
             \cup (IF i \in MultiBytePositions THEN {TokMulti} ELSE {})
             \cup (IF i \in MinimalPositions THEN {Minimal(phrase_words[i + 1])} ELSE {})

\* ------------------------------------------------------------------------
\* State
\* ------------------------------------------------------------------------
VARIABLES
    seed,      \* the seed given to seed_to_seed_phrase
    enc,       \* what seed_to_seed_phrase returned
    phrase,    \* the phrase given to seed_phrase_to_seed / valid_seed_phrase
    edits,     \* changes made to the phrase since it was encoded
    op,        \* the last call on the phrase
    result,    \* what that call returned
    digest,    \* the digest given to the checksum-word extraction
    cwords,    \* the two word indices extracted from it
    csprng,    \* a SeedCsprng: [seed, used]
    rng,       \* the last call on it: method, dest.len(), used before, outcome, dest
    fills,     \* calls of fill_bytes on it that returned
    calls,     \* calls made on it
    kp         \* keypair_from_seed: derivations made, last outcome, last secret bytes

codecVars == << seed, enc, phrase, edits, op, result >>
checksumVars == << digest, cwords >>
rngVars == << csprng, rng, fills, calls, kp >>
vars == << seed, enc, phrase, edits, op, result, digest, cwords, csprng, rng, fills, calls, kp >>

NoEnc == [panic |-> FALSE, phrase |-> <<>>, indices |-> <<>>, maxByte |-> 0]

ZeroDigest == [k \in 0..(DigestLen - 1) |-> 0]
NoCall == [method |-> "none", len |-> 0, usedBefore |-> FALSE, out |-> "none", dest |-> <<>>]
NoKeypair == [count |-> 0, out |-> "none", secret |-> <<>>]

\* SeedCsprng { seed, used: false }
NewCsprng(s) == [seed |-> s, used |-> FALSE]

CodecIdle ==
    /\ enc = NoEnc
    /\ phrase = <<>>
    /\ edits = 0
    /\ op = "none"
    /\ result = NoOutcome

ChecksumIdle ==
    /\ digest = ZeroDigest
    /\ cwords = <<>>

RngIdle ==
    /\ csprng = NewCsprng(ZeroSeed)
    /\ rng = NoCall
    /\ fills = 0
    /\ calls = 0
    /\ kp = NoKeypair

InitCodec ==
    /\ seed \in EditSeeds
    /\ CodecIdle /\ ChecksumIdle /\ RngIdle

InitRoundTrip ==
    /\ seed \in Seeds
    /\ CodecIdle /\ ChecksumIdle /\ RngIdle

\* let phrase = seed_to_seed_phrase(seed)
Encode ==
    /\ op = "none"
    /\ enc = NoEnc
    /\ enc' = seed_to_seed_phrase(seed)
    /\ phrase' = enc'.phrase
    /\ UNCHANGED << seed, edits, op, result, checksumVars, rngVars >>

Editable == op = "none" /\ enc # NoEnc /\ ~enc.panic /\ edits < MaxEdits

\* phrase_words[i] = tok; phrase_words.join(" ")
ReplaceWord(i, tok) ==
    /\ Editable
    /\ LET phrase_words == Split(phrase)
       IN  /\ i < Len(phrase_words)
           /\ tok # phrase_words[i + 1]
           /\ phrase' = Join([phrase_words EXCEPT ![i + 1] = tok])
    /\ edits' = edits + 1
    /\ UNCHANGED << seed, enc, op, result, checksumVars, rngVars >>

\* index of the dictionary word equal to w ("if w == words[12]")
FullWordIndex(w) ==
    LET m == {k \in DOMAIN DICTIONARY : DICTIONARY[k] = w}
    IN  IF m = {} THEN DictionarySize ELSE CHOOSE k \in m : \A j \in m : k <= j

\* words[12] = DICTIONARY[word_index + 256], and its further multiples
AddOutOfRangeBit(m) ==
    /\ Editable
    /\ LET words == Split(phrase)
       IN  /\ Len(words) >= SEED_ENTROPY_WORDS
           /\ LET word_index == FullWordIndex(words[SEED_ENTROPY_WORDS])
              IN  /\ word_index <= 255
                  /\ phrase' = Join([words EXCEPT ![SEED_ENTROPY_WORDS] =
                                        DICTIONARY[word_index + 256 * m]])
    /\ edits' = edits + 1
    /\ UNCHANGED << seed, enc, op, result, checksumVars, rngVars >>

\* a token more: at the end (phrase_words.push), at the front or inside
InsertWord(i, tok) ==
    /\ Editable
    /\ LET phrase_words == Split(phrase)
       IN  /\ i <= Len(phrase_words)
           /\ phrase' = Join(SubSeq(phrase_words, 1, i) \o << tok >>
                                \o SubSeq(phrase_words, i + 1, Len(phrase_words)))
    /\ edits' = edits + 1
    /\ UNCHANGED << seed, enc, op, result, checksumVars, rngVars >>

\* phrase_words[..len - 1].join(" ")
RemoveWord ==
    /\ Editable
    /\ LET phrase_words == Split(phrase)
       IN  /\ Len(phrase_words) > 1
           /\ phrase' = Join(SubSeq(phrase_words, 1, Len(phrase_words) - 1))
    /\ edits' = edits + 1
    /\ UNCHANGED << seed, enc, op, result, checksumVars, rngVars >>

\* seed_phrase_to_seed(&phrase)
Decode ==
    /\ op = "none"
    /\ op' = "seed_phrase_to_seed"
    /\ result' = seed_phrase_to_seed(phrase)
    /\ UNCHANGED << seed, enc, phrase, edits, checksumVars, rngVars >>

\* valid_seed_phrase(&phrase)
Validate ==
    /\ op = "none"
    /\ op' = "valid_seed_phrase"
    /\ result' = valid_seed_phrase(phrase)
    /\ UNCHANGED << seed, enc, phrase, edits, checksumVars, rngVars >>

Replace == \E i \in EditPositions : \E tok \in ReplacementTokens(phrase, i) : ReplaceWord(i, tok)
AddBit == \E m \in {1, 3} : AddOutOfRangeBit(m)

\* a leading space, a doubled space, a trailing space, one word more
Insert ==
    \/ \E i \in {0, 1, SEED_ENTROPY_WORDS + SEED_CHECKSUM_WORDS} : InsertWord(i, TokEmpty)
    \/ InsertWord(SEED_ENTROPY_WORDS + SEED_CHECKSUM_WORDS, DICTIONARY[0])

NextCodec == Encode \/ Replace \/ AddBit \/ Insert \/ RemoveWord \/ Decode \/ Validate

Spec == InitCodec /\ [][NextCodec]_vars

NextRoundTrip == Encode \/ Decode \/ Validate

SpecRoundTrip == InitRoundTrip /\ [][NextRoundTrip]_vars


\* ------------------------------------------------------------------------
\* Checksum-word extraction on its own: every middle digest byte, sampled
\* first and third digest bytes
\* ------------------------------------------------------------------------
DigestSamples == {(k * 73) % 256 : k \in 0..(NumDigestSamples - 1)}

DigestOf(d0, d1, d2) ==
    [k \in 0..(DigestLen - 1) |-> IF k = 0 THEN d0 ELSE IF k = 1 THEN d1 ELSE IF k = 2 THEN d2 ELSE 0]

InitChecksum ==
    /\ seed = ZeroSeed
    /\ CodecIdle /\ RngIdle
    /\ \E d0 \in DigestSamples, d1 \in Byte, d2 \in DigestSamples : digest = DigestOf(d0, d1, d2)
    /\ cwords = <<>>

\* "Convert the first 20 bits of the entropy into two words."
ChecksumWords ==
    /\ cwords = <<>>
    /\ cwords' = ChecksumIndices(digest)
    /\ UNCHANGED << codecVars, digest, rngVars >>

NextChecksum == ChecksumWords

SpecChecksum == InitChecksum /\ [][NextChecksum]_vars

\* ------------------------------------------------------------------------
\* SeedCsprng and keypair_from_seed
\* ------------------------------------------------------------------------
DigestBytes(d) == [k \in 1..DigestLen |-> d[k - 1]]

\* variant: the used flag is set but never tested
fill_bytes_unguarded(self, len) ==
    IF len # 32 THEN [self |-> self, out |-> "panic", dest |-> <<>>]
    ELSE [self |-> [self EXCEPT !.used = TRUE], out |-> "returned",
          dest |-> DigestBytes(Sha256(self.seed))]

\* RngCore::fill_bytes(&mut self, dest) with dest.len() = len
fill_bytes(self, len) ==
    IF len # 32 THEN [self |-> self, out |-> "panic", dest |-> <<>>]
    ELSE IF self.used THEN [self |-> self, out |-> "panic", dest |-> <<>>]
    ELSE [self |-> [self EXCEPT !.used = TRUE], out |-> "returned",
          dest |-> DigestBytes(Sha256(self.seed))]

\* next_u32, next_u64, try_fill_bytes: panic!
refused(self) == [self |-> self, out |-> "panic", dest |-> <<>>]

\* Keypair::generate(&mut csprng) of ed25519_dalek fills the 32 bytes of the
\* secret key from the source, once
Generate(c) == fill_bytes(c, 32)

keypair_from_seed(s) == Generate(NewCsprng(s))

DestLens == {0, 16, 31, 32, 33, 64}

InitRng ==
    /\ seed \in EditSeeds
    /\ CodecIdle /\ ChecksumIdle
    /\ csprng = NewCsprng(seed)
    /\ rng = NoCall
    /\ fills = 0
    /\ calls = 0
    /\ kp = NoKeypair

Called(method, len, r) ==
    /\ calls < MaxCalls
    /\ csprng' = r.self
    /\ rng' = [method |-> method, len |-> len, usedBefore |-> csprng.used,
               out |-> r.out, dest |-> r.dest]
    /\ fills' = IF method = "fill_bytes" /\ r.out = "returned" THEN fills + 1 ELSE fills
    /\ calls' = calls + 1
    /\ UNCHANGED << codecVars, checksumVars, kp >>

FillBytes(len) == Called("fill_bytes", len, fill_bytes(csprng, len))
NextU32 == Called("next_u32", 0, refused(csprng))
NextU64 == Called("next_u64", 0, refused(csprng))
TryFillBytes(len) == Called("try_fill_bytes", len, refused(csprng))

\* keypair_from_seed(seed): its source is a local of the call
KeypairFromSeed ==
    /\ kp.count < MaxCalls
    /\ LET r == keypair_from_seed(seed)
       IN  kp' = [count |-> kp.count + 1, out |-> r.out, secret |-> r.dest]
    /\ UNCHANGED << codecVars, checksumVars, csprng, rng, fills, calls >>

Fill == \E len \in DestLens : FillBytes(len)
TryFill == \E len \in DestLens : TryFillBytes(len)

NextRng == Fill \/ NextU32 \/ NextU64 \/ TryFill \/ KeypairFromSeed

SpecRng == InitRng /\ [][NextRng]_vars


\* ------------------------------------------------------------------------
\* Vocabulary of the properties
\* ------------------------------------------------------------------------
Toks == Split(phrase)
Good == Split(enc.phrase)
PhraseLen == SEED_ENTROPY_WORDS + SEED_CHECKSUM_WORDS
Returned == op # "none"
Encoded == enc # NoEnc

\* tokens counted without splitting: one more than the spaces
SpaceCount == Cardinality({k \in 1..Len(phrase) : phrase[k] = SPACE})

DictWordSet == {DICTIONARY[k] : k \in DOMAIN DICTIONARY}
DictPrefixSet == {DictPrefix[k] : k \in DOMAIN DICTIONARY}

TooShort(t) == Len(t) < DICTIONARY_UNIQUE_PREFIX
Pre(t) == SubSeq(t, 1, DICTIONARY_UNIQUE_PREFIX)
Known(t) == ~TooShort(t) /\ Pre(t) \in DictPrefixSet
PrefixIndex(t) == CHOOSE k \in DOMAIN DICTIONARY : DictPrefix[k] = Pre(t)

\* t is a dictionary word, or the beginning (of at least the unique-prefix
\* length) of a dictionary word
WordOrPrefix(t) ==
    /\ ~TooShort(t)
    /\ \E k \in DOMAIN DICTIONARY :
          Len(t) <= Len(DICTIONARY[k]) /\ SubSeq(DICTIONARY[k], 1, Len(t)) = t

\* bit n of the seed, n counted from the most significant bit of byte 0
SeedBit(s, n) == (s[n \div 8] \div (2 ^ (7 - (n % 8)))) % 2

\* the number spelled by the n bits of the seed that start at bit from
RECURSIVE BitsValue(_, _, _)
BitsValue(s, from, n) ==
    IF n = 0 THEN 0
    ELSE SeedBit(s, from + n - 1) + 2 * BitsValue(s, from, n - 1)

\* ------------------------------------------------------------------------
\* C1  Round trip: decoding the phrase that seed_to_seed_phrase made of a
\* seed returns Ok with that seed, and valid_seed_phrase returns Ok.
\* ------------------------------------------------------------------------
C1_RoundTrip ==
    Encoded =>
        /\ ~enc.panic
        /\ (Returned /\ phrase = enc.phrase) =>
              /\ result.kind = "Ok"
              /\ op = "seed_phrase_to_seed" => result.seed = seed

C1_Witness ==
    /\ Encoded /\ op = "seed_phrase_to_seed" /\ phrase = enc.phrase
    /\ seed = TestSeed(6)
    /\ result.kind = "Ok" /\ result.seed = seed

\* ------------------------------------------------------------------------
\* C2  Bound enforcement: a 15-token phrase whose 13th token resolves to a
\* dictionary index in 256..1023 is never accepted, whatever the other
\* tokens are; the encoded phrase with its 13th word moved up by 256, and
\* nothing else changed, gets the out-of-range error.
\* ------------------------------------------------------------------------
MovedUp(toks, good) ==
    /\ Encoded
    /\ toks = [good EXCEPT ![SEED_ENTROPY_WORDS] =
                  DICTIONARY[enc.indices[SEED_ENTROPY_WORDS] + 256]]

C2_BoundEnforced ==
    Returned =>
        LET toks == Toks
            w13 == toks[SEED_ENTROPY_WORDS]
        IN  Len(toks) = PhraseLen =>
               /\ (Known(w13) /\ PrefixIndex(w13) > 255) => result.kind # "Ok"
               /\ MovedUp(toks, Good) =>
                     /\ result.kind = "Err"
                     /\ result.err = "OutOfRange"
                     /\ result.a = Pre(w13)

C2_Witness ==
    /\ Returned /\ Len(Toks) = PhraseLen
    /\ MovedUp(Toks, Good)
    /\ result.err = "OutOfRange"

\* ------------------------------------------------------------------------
\* C3  Decoding is total: seed_phrase_to_seed returns Ok or Err for every
\* input and never panics; Ok comes only after 13 tokens were resolved,
\* the bound was checked and both checksum tokens were compared.
\* ------------------------------------------------------------------------
C3_Total ==
    op = "seed_phrase_to_seed" =>
        /\ result.kind \in {"Ok", "Err"}
        /\ result.kind = "Ok" =>
              /\ result.resolved = SEED_ENTROPY_WORDS
              /\ result.bound
              /\ result.compared = SEED_CHECKSUM_WORDS

\* ------------------------------------------------------------------------
\* C4  Word-count gate: a phrase that does not have exactly 15 tokens, one
\* token per space plus one, gets the word-count error, whatever its
\* tokens are.
\* ------------------------------------------------------------------------
C4_WordCountGate ==
    (Returned /\ SpaceCount + 1 # PhraseLen) =>
        /\ result.kind = "Err"
        /\ result.err = "WordCount"
        /\ result.n = SpaceCount + 1

C4_Witness ==
    /\ Returned
    /\ SpaceCount + 1 = PhraseLen + 1
    /\ \E k \in 1..(Len(phrase) - 1) : phrase[k] = SPACE /\ phrase[k + 1] = SPACE
    /\ result.err = "WordCount"
    /\ LET toks == Toks IN \E i \in 1..Len(toks) : toks[i] = TokAb

\* ------------------------------------------------------------------------
\* C5 as stated: every token of an accepted phrase is a dictionary word or
\* the beginning of one.
\* ------------------------------------------------------------------------
C5_Original ==
    (Returned /\ result.kind = "Ok") =>
        LET toks == Toks IN \A i \in 1..Len(toks) : WordOrPrefix(toks[i])

\* ------------------------------------------------------------------------
\* C5 amended: every token of an accepted phrase is at least
\* DICTIONARY_UNIQUE_PREFIX bytes long and begins with the
\* DICTIONARY_UNIQUE_PREFIX-byte prefix of a dictionary word; what follows
\* the prefix is not looked at.
\* ------------------------------------------------------------------------
C5_PrefixOnly ==
    (Returned /\ result.kind = "Ok") =>
        LET toks == Toks
        IN  /\ Len(toks) = PhraseLen
            /\ \A i \in 1..Len(toks) : Known(toks[i])

C5_Witness ==
    /\ Returned /\ result.kind = "Ok"
    /\ LET toks == Toks
       IN  /\ \E i \in 1..Len(toks) : ~WordOrPrefix(toks[i]) /\ Known(toks[i])
           /\ \E i \in 1..Len(toks) : toks[i] \notin DictWordSet /\ WordOrPrefix(toks[i])

\* ------------------------------------------------------------------------
\* C7  Checksum bit extraction: the two indices are
\* ((d0 << 8) | d1) >> 6 and (((d1 << 10) | (d2 << 2)) & 0xFFFF) >> 6,
\* both in 0..1023, and together they are the first 20 bits of the digest.
\* ------------------------------------------------------------------------
C7_ChecksumBits ==
    cwords # <<>> =>
        LET d0 == digest[0]
            d1 == digest[1]
            d2 == digest[2]
        IN  /\ cwords[1] = Shr(BitOr(Shl(d0, 8), d1), 6)
            /\ cwords[2] = Shr(BitAnd(BitOr(Shl(d1, 10), Shl(d2, 2)), 65535), 6)
            /\ cwords[1] \in 0..(DictionarySize - 1)
            /\ cwords[2] \in 0..(DictionarySize - 1)
            /\ cwords[1] * 1024 + cwords[2]
                  = BitOr(BitOr(Shl(d0, 12), Shl(d1, 4)), Shr(d2, 4))

C7_Witness ==
    /\ cwords # <<>>
    /\ digest[0] = 255 /\ digest[1] = 255 /\ digest[2] = 255
    /\ cwords = << 1023, 1023 >>

\* ------------------------------------------------------------------------
\* C8  Encoding bit schedule: entropy word i < 12 has the index spelled by
\* seed bits 10i..10i+9, word 12 the index seed[15]; no byte beyond 15 is
\* read; [0;16] gives index 0 thirteen times, [255;16] gives 1023 twelve
\* times and then 255.
\* ------------------------------------------------------------------------
C8_BitSchedule ==
    Encoded =>
        /\ ~enc.panic
        /\ enc.maxByte <= SeedLen - 1
        /\ Len(enc.indices) = SEED_ENTROPY_WORDS
        /\ \A i \in 0..(SEED_ENTROPY_WORDS - 2) :
              enc.indices[i + 1] = BitsValue(seed, 10 * i, 10)
        /\ enc.indices[SEED_ENTROPY_WORDS] = seed[SeedLen - 1]
        /\ enc.indices[SEED_ENTROPY_WORDS] \in 0..255
        /\ Len(Good) = PhraseLen
        /\ \A i \in 1..SEED_ENTROPY_WORDS : Good[i] = DICTIONARY[enc.indices[i]]
        /\ seed = ZeroSeed => enc.indices = [i \in 1..SEED_ENTROPY_WORDS |-> 0]
        /\ seed = FullSeed =>
              enc.indices = [i \in 1..SEED_ENTROPY_WORDS |->
                                IF i < SEED_ENTROPY_WORDS THEN 1023 ELSE 255]

C8_Witness ==
    /\ Encoded /\ seed = FullSeed
    /\ enc.indices[1] = 1023 /\ enc.indices[12] = 1023 /\ enc.indices[13] = 255
    /\ enc.maxByte = 15

\* ------------------------------------------------------------------------
\* C9  Checksum-word sensitivity: the encoded phrase with its 14th or 15th
\* word replaced by a different dictionary word gets the checksum error;
\* the 14th word is compared first, so it is the one named when both are
\* wrong.
\* ------------------------------------------------------------------------
ChecksumWordsChanged(toks, good) ==
    /\ Encoded /\ Len(toks) = PhraseLen
    /\ \A i \in 1..SEED_ENTROPY_WORDS : toks[i] = good[i]
    /\ toks[14] \in DictWordSet /\ toks[15] \in DictWordSet
    /\ toks[14] # good[14] \/ toks[15] # good[15]

C9_ChecksumSensitive ==
    Returned =>
        LET toks == Toks
            good == Good
        IN  ChecksumWordsChanged(toks, good) =>
               /\ result.kind = "Err"
               /\ toks[14] # good[14] =>
                     /\ result.err = "Checksum1"
                     /\ result.a = Pre(good[14]) /\ result.b = Pre(toks[14])
               /\ toks[14] = good[14] =>
                     /\ result.err = "Checksum2"
                     /\ result.a = Pre(good[15]) /\ result.b = Pre(toks[15])

C9_Witness ==
    /\ Returned
    /\ LET toks == Toks
           good == Good
       IN  /\ ChecksumWordsChanged(toks, good)
           /\ toks[14] # good[14] /\ toks[15] # good[15]
    /\ result.err = "Checksum1"

\* ------------------------------------------------------------------------
\* C10 as stated: the error of a 15-token phrase is that of the first
\* defect among its first 13 tokens, scanned left to right (too short:
\* malformed; no dictionary word: unknown), then the 13th-word bound; any
\* of these is reported before a defect of the two checksum tokens.
\* ------------------------------------------------------------------------
EntropyDefects(toks) == {i \in 1..SEED_ENTROPY_WORDS : ~Known(toks[i])}
FirstOf(S) == CHOOSE i \in S : \A j \in S : i <= j

SpecOrderError(toks) ==
    LET defects == EntropyDefects(toks)
    IN  IF defects # {}
        THEN IF TooShort(toks[FirstOf(defects)]) THEN "Malformed" ELSE "UnknownWord"
        ELSE IF PrefixIndex(toks[SEED_ENTROPY_WORDS]) > 255 THEN "OutOfRange"
        ELSE "Checksum"

C10_Original ==
    (Returned /\ result.kind = "Err") =>
        LET toks == Toks
        IN  Len(toks) = PhraseLen =>
               LET e == SpecOrderError(toks)
               IN  e # "Checksum" => result.err = e

\* ------------------------------------------------------------------------
\* C10 amended: when a 15-token phrase gets an error, it is: malformed if
\* any of the 15 tokens, checksum tokens included, is shorter than
\* DICTIONARY_UNIQUE_PREFIX bytes; otherwise unknown word, naming the
\* leftmost of the first 13 tokens whose prefix is no dictionary prefix;
\* otherwise out of range if the 13th index is above 255; otherwise a
\* checksum mismatch.
\* ------------------------------------------------------------------------
CodeOrderError(toks) ==
    IF \E i \in 1..PhraseLen : TooShort(toks[i]) THEN "Malformed"
    ELSE IF EntropyDefects(toks) # {} THEN "UnknownWord"
    ELSE IF PrefixIndex(toks[SEED_ENTROPY_WORDS]) > 255 THEN "OutOfRange"
    ELSE "Checksum"

C10_GateOrder ==
    (Returned /\ result.kind = "Err") =>
        LET toks == Toks
        IN  Len(toks) = PhraseLen =>
               LET e == CodeOrderError(toks)
               IN  /\ e = "Checksum" => result.err \in {"Checksum1", "Checksum2"}
                   /\ e # "Checksum" => result.err = e
                   /\ e = "UnknownWord" =>
                         result.a = Pre(toks[FirstOf(EntropyDefects(toks))])

C10_Witness ==
    /\ Returned /\ result.kind = "Err" /\ result.err = "Malformed"
    /\ LET toks == Toks
       IN  /\ Len(toks) = PhraseLen
           /\ toks[1] = TokAbx /\ toks[15] = TokAb

\* ------------------------------------------------------------------------
\* C6  Single-use random source: fill_bytes returns at most once, only for
\* 32 bytes, and returns SHA-256(seed); it panics after a fill and for any
\* other length; next_u32, next_u64 and try_fill_bytes always panic; every
\* keypair_from_seed has a fresh source and so never panics.
\* ------------------------------------------------------------------------
C6_SingleUse ==
    /\ fills <= 1
    /\ csprng.used <=> fills = 1
    /\ rng.out = "returned" =>
          /\ rng.method = "fill_bytes" /\ rng.len = 32 /\ ~rng.usedBefore
          /\ rng.dest = DigestBytes(Sha256(csprng.seed))
    /\ (rng.method = "fill_bytes" /\ (rng.usedBefore \/ rng.len # 32)) => rng.out = "panic"
    /\ rng.method \in {"next_u32", "next_u64", "try_fill_bytes"} => rng.out = "panic"
    /\ kp.count > 0 =>
          /\ kp.out = "returned"
          /\ kp.secret = DigestBytes(Sha256(seed))

C6_Witness ==
    /\ fills = 1 /\ rng.method = "fill_bytes" /\ rng.len = 32 /\ rng.usedBefore
    /\ rng.out = "panic"
    /\ kp.count >= 2 /\ kp.out = "returned"


====
